---------------------------- MODULE Spec2Model ----------------------------
(***************************************************************************)
(* State-machine model of the command-line scripts of cohalz/tools:        *)
(*   mackerel-alert-stats.ts          (script "stats")                     *)
(*   mackerel/list_monitors.ts        (script "monitors")                  *)
(*   list_monitors, fetch variant     (script "monitors0", unnamed/part_000)*)
(*   github/make_team_maintainer.ts   (script "maintRest")                 *)
(*   make_team_maintainer, GraphQL    (script "maintGql", unnamed/part_001) *)
(* Every action is one run-to-next-await step of the script: it starts at  *)
(* the resumption of an awaited call and ends where the next awaited call  *)
(* is issued (or where the process exits).  Timestamps are milliseconds.   *)
(***************************************************************************)
EXTENDS Integers, Sequences, FiniteSets, TLC

VARIABLES
    script,     \* which script this process runs
    env,        \* environment variables and command-line arguments
    api,        \* what the remote services hold and how they will answer
    clock,      \* the wall clock read by new Date()
    pc,         \* where the script is suspended
    loc,        \* the script's local variables
    requests,   \* every HTTP request issued so far, in order
    answers,    \* the outcome of every request answered so far, in order
    stdout,     \* lines written with console.log
    stderr,     \* lines written with console.error / the runtime's error report
    exitCode    \* -1 while the process runs, else its exit code

vars == <<script, env, api, clock, pc, loc, requests, answers, stdout, stderr, exitCode>>

(***************************************************************************)
(* Bounds of the model.                                                    *)
(***************************************************************************)
MaxAlerts == 3          \* alerts held by the monitoring service
PageSize == 2           \* alerts per page returned by the alerts API
MaxPageRequests == 3    \* cap on alert page requests of one run
MaxMonitors == 2        \* monitors held by the monitoring service
MaxTeams == 2           \* teams of the organization
MaxMembers == 2         \* members of one team
TeamsFirst == 1         \* teams per page (first: 100 in the query)
MembersFirst == 1       \* members per page (first: 100 in the queries)

(***************************************************************************)
(* Generic helpers.                                                        *)
(***************************************************************************)
Min(a, b) == IF a <= b THEN a ELSE b

Last(s) == s[Len(s)]

SeqsUpTo(S, n) == UNION {[1..k -> S] : k \in 0..n}

RECURSIVE SumSeq(_)
SumSeq(s) == IF s = <<>> THEN 0 ELSE s[1] + SumSeq(Tail(s))

\* Nearest integer to the non-negative quotient n/d, ties upwards: Math.round,
\* and Number.prototype.toFixed(0), on a non-negative value.
RoundDiv(n, d) == (2 * n + d) \div (2 * d)

Abs(n) == IF n < 0 THEN 0 - n ELSE n

(***************************************************************************)
(* The process: uncaught errors and exits (Deno runtime).                  *)
(***************************************************************************)
\* An error thrown at the top level of a module (or a rejected top-level
\* await) is reported by the runtime on stderr and the process exits 1.
Uncaught(msg) ==
    /\ pc' = "exit"
    /\ exitCode' = 1
    /\ stderr' = Append(stderr, [kind |-> "uncaught", text |-> msg])

\* Requests issued and not yet answered.
Inflight == Len(requests) - Len(answers)

(***************************************************************************)
(* mackerel-alert-stats.ts : data                                          *)
(***************************************************************************)
MsPerMinute == 60000
DelayMs == 1000
InvalidDate == -1       \* new Date('').getTime() is NaN
ClosedNull == -1        \* Alert.closedAt of an alert that is still open
NullId == "null"        \* Alert.monitorId null; Object.groupBy keys it "null"
NoCursor == 0           \* cursor undefined: the request for the first page

AlertMonitors == {"m1", "m2", "m3", NullId}

\* The type of an alert is the type of the monitor that raised it.
AlertTypeOf(m) == IF m = "m2" THEN "check" ELSE IF m = "m3" THEN "service" ELSE "host"

OpenedTimes == {60000, 120000, 180000}

\* How long a closed alert stayed open.
Durations == {20000}

Nows == {90000, 240000}

\* --from / --to as parsed by new Date(flags.x ?? '')
FromTos == { <<120000, 180000>>, <<120000, 140000>>, <<120000, 120000>>,
             <<InvalidDate, 180000>>, <<120000, InvalidDate>> }

AlertPool ==
    { [monitorId |-> m, type |-> AlertTypeOf(m), openedAt |-> t,
       closedAt |-> IF d = ClosedNull THEN ClosedNull ELSE t + d] :
        m \in AlertMonitors, t \in OpenedTimes, d \in Durations \cup {ClosedNull} }

\* The alerts API lists alerts newest first; no alert was opened after now.
AlertDbs(now) ==
    { d \in SeqsUpTo({a \in AlertPool : a.openedAt <= now}, MaxAlerts) :
        \A i \in 1..(Len(d) - 1) : d[i].openedAt >= d[i + 1].openedAt }

\* cli.alerts.list({includeClosed: true, cursor}): the page after `cursor`
\* and the cursor of the next page (undefined after the last page).
AlertsList(db, cursor) ==
    [ alerts |-> SubSeq(db, cursor + 1, Min(cursor + PageSize, Len(db))),
      cursor |-> IF cursor + PageSize < Len(db) THEN cursor + PageSize ELSE NoCursor ]

\* (await cli.monitors.get(monitorId)).name
MonitorName(id) == IF id = "m1" THEN "web-cpu" ELSE IF id = "m2" THEN "cron-check"
                   ELSE IF id = "m3" THEN "api-latency" ELSE "unknown"

(***************************************************************************)
(* mackerel-alert-stats.ts : pure functions                                *)
(***************************************************************************)
prev(from, to) == 2 * from - to

windowMin(from, to) == RoundDiv(to - from, MsPerMinute)

\* JavaScript numbers that a division can produce.
NaN == [kind |-> "NaN", num |-> 0, den |-> 1]
NegInfinity == [kind |-> "-Infinity", num |-> 0, den |-> 1]
PosInfinity == [kind |-> "Infinity", num |-> 0, den |-> 1]
Finite(n, d) == [kind |-> "finite", num |-> n, den |-> d]

NumDiv(n, d) ==
    IF d # 0 THEN Finite(n, d)
    ELSE IF n = 0 THEN NaN ELSE IF n < 0 THEN NegInfinity ELSE PosInfinity

NumSub(a, b) ==
    IF a.kind = "finite" /\ b.kind = "finite"
      THEN Finite(a.num * b.den - b.num * a.den, a.den * b.den)
    ELSE IF a.kind = "NaN" \/ b.kind = "NaN" \/ a.kind = b.kind THEN NaN
    ELSE IF a.kind = "finite" THEN (IF b.kind = "Infinity" THEN NegInfinity ELSE PosInfinity)
    ELSE a

NumGe(a, b) ==
    IF a.kind = "NaN" \/ b.kind = "NaN" THEN FALSE
    ELSE IF a.kind = "finite" /\ b.kind = "finite"
      THEN a.num * b.den * (IF a.den * b.den < 0 THEN 0 - 1 ELSE 1)
             >= b.num * a.den * (IF a.den * b.den < 0 THEN 0 - 1 ELSE 1)
    ELSE a.kind = "Infinity" \/ b.kind = "-Infinity" \/ a.kind = b.kind

NumIs(a, k) == a.kind = "finite" /\ a.num = k * a.den

Pow10(f) == IF f = 0 THEN 1 ELSE IF f = 1 THEN 10 ELSE 100

\* Number.prototype.toFixed(f): the value in units of 10^-f, rounded half away
\* from zero; NaN and the infinities print as themselves.
toFixed(a, f) ==
    IF a.kind # "finite" THEN [text |-> a.kind, scaled |-> 0]
    ELSE [text |-> "decimal",
          scaled |-> (IF (a.num < 0) # (a.den < 0) THEN 0 - 1 ELSE 1)
                       * RoundDiv(Abs(a.num) * Pow10(f), Abs(a.den))]

getNumberWithDelta(a, b, fractionDigits) ==
    [ value |-> toFixed(a, fractionDigits),
      sign  |-> IF NumGe(a, b) THEN "+" ELSE "",
      delta |-> toFixed(NumSub(a, b), fractionDigits) ]

\* (alert.closedAt || new Date()).valueOf() - alert.openedAt.valueOf()
OpenMs(alert, now) ==
    (IF alert.closedAt = ClosedNull THEN now ELSE alert.closedAt) - alert.openedAt

\* The sum of the minutes instead of their mean.
getMTTRSum(alerts, now) ==
    IF Len(alerts) = 0 THEN 0
    ELSE RoundDiv(SumSeq([i \in 1..Len(alerts) |-> OpenMs(alerts[i], now)]), MsPerMinute)

getMTTR(alerts, now) ==
    IF Len(alerts) = 0 THEN 0
    ELSE RoundDiv(SumSeq([i \in 1..Len(alerts) |-> OpenMs(alerts[i], now)]),
                  MsPerMinute * Len(alerts))

getAlertStats(alerts, now) ==
    [ count |-> Len(alerts),
      mttr |-> getMTTR(alerts, now),
      downTime |-> Len(alerts) * getMTTR(alerts, now) ]

availabilityOf(wMin, stats) == NumDiv(100 * (wMin - stats.downTime), wMin)

\* The keys of Object.groupBy(alerts, alert => alert.monitorId), in the order
\* Object.entries lists them: the order of first appearance.
RECURSIVE GroupKeys(_)
GroupKeys(alerts) ==
    IF alerts = <<>> THEN <<>>
    ELSE <<alerts[1].monitorId>>
           \o GroupKeys(SelectSeq(Tail(alerts), LAMBDA a : a.monitorId # alerts[1].monitorId))

groupBy(alerts) ==
    [ i \in 1..Len(GroupKeys(alerts)) |->
        [ key |-> GroupKeys(alerts)[i],
          alerts |-> SelectSeq(alerts, LAMBDA a : a.monitorId = GroupKeys(alerts)[i]) ] ]

InRangeClosed(alert, lo, hi) == alert.openedAt >= lo /\ alert.openedAt <= hi

InRange(alert, lo, hi) == alert.openedAt >= lo /\ alert.openedAt < hi

\* What getAlertsByMonitor makes of the alerts that getAlerts returned.
getAlertsByMonitor(alerts, p, from, to) ==
    << groupBy(SelectSeq(alerts, LAMBDA a : InRange(a, from, to))),
       groupBy(SelectSeq(alerts, LAMBDA a : InRange(a, p, from))) >>

\* prevAlertsByMonitor[monitorId] ?? []
GroupOf(groups, key) ==
    IF \E i \in 1..Len(groups) : groups[i].key = key
      THEN groups[CHOOSE i \in 1..Len(groups) : groups[i].key = key].alerts
      ELSE <<>>

SkippedDeletedOnly(entry) == entry.alerts[1].monitorId = NullId

\* The two `continue` conditions of the report loop.
Skipped(entry) == entry.alerts[1].type = "check" \/ entry.alerts[1].monitorId = NullId

\* The first entry at or after i that the report loop does not skip.
RECURSIVE NextReported(_, _)
NextReported(entries, i) ==
    IF i > Len(entries) THEN i
    ELSE IF Skipped(entries[i]) THEN NextReported(entries, i + 1) ELSE i

(***************************************************************************)
(* mackerel-alert-stats.ts : the script                                    *)
(***************************************************************************)
StatsLocals ==
    [ alerts |-> <<>>, cursor |-> NoCursor, currentOpenedAt |-> 0,
      responses |-> <<>>, delays |-> 0,
      alertsByMonitor |-> <<>>, prevAlertsByMonitor |-> <<>>, entry |-> 0,
      currentStats |-> getAlertStats(<<>>, 0), prevStats |-> getAlertStats(<<>>, 0),
      availability |-> NaN, prevAvailability |-> NaN ]

InitStats ==
    /\ script = "stats"
    /\ clock \in Nows
    /\ env \in { [apiKey |-> k, from |-> ft[1], to |-> ft[2]] : k \in BOOLEAN, ft \in FromTos }
    /\ api \in { [alerts |-> d] : d \in AlertDbs(clock) }
    /\ pc = "start"
    /\ loc = StatsLocals
    /\ requests = <<>>
    /\ answers = <<>>
    /\ stdout = <<>>
    /\ stderr = <<>>
    /\ exitCode = -1

ListRequest(cursor) == [kind |-> "alerts.list", arg |-> cursor]

GetRequest(monitorId) == [kind |-> "monitors.get", arg |-> monitorId]

CountRequests(kind) == Cardinality({i \in 1..Len(requests) : requests[i].kind = kind})

\* Lines 15-34 and 42-46, up to the first await of getAlerts (line 77).
StatsStart ==
    /\ script = "stats" /\ pc = "start"
    /\ UNCHANGED <<script, env, api, clock, answers, stdout>>
    /\ IF ~env.apiKey
         THEN Uncaught("MACKEREL_APIKEY is not set") /\ UNCHANGED <<loc, requests>>
       ELSE IF env.from = InvalidDate
         THEN Uncaught("--from is not set or invalid") /\ UNCHANGED <<loc, requests>>
       ELSE IF env.to = InvalidDate
         THEN Uncaught("--to is not set or invalid") /\ UNCHANGED <<loc, requests>>
       ELSE IF ~(env.from < env.to)
         THEN Uncaught("invavlid time range") /\ UNCHANGED <<loc, requests>>
       ELSE /\ loc' = [loc EXCEPT !.alerts = <<>>, !.cursor = NoCursor,
                                  !.currentOpenedAt = clock]
            /\ requests' = Append(requests, ListRequest(NoCursor))
            /\ pc' = "alerts.list"
            /\ UNCHANGED <<stderr, exitCode>>

\* The report loop (lines 51-63) from entry i on, with locals l and output out:
\* it runs to the next monitors.get, or off the end of the entries, where the
\* module ends and the process exits 0.
ReportFrom(l, out, i) ==
    LET j == NextReported(l.alertsByMonitor, i) IN
    /\ stdout' = out
    /\ loc' = [l EXCEPT !.entry = j]
    /\ UNCHANGED stderr
    /\ IF j > Len(l.alertsByMonitor)
         THEN /\ pc' = "exit"
              /\ exitCode' = 0
              /\ UNCHANGED requests
         ELSE /\ pc' = "monitors.get"
              /\ requests' = Append(requests, GetRequest(l.alertsByMonitor[j].key))
              /\ UNCHANGED exitCode

\* getAlerts has returned `alerts` (line 86): lines 90-95, 46-49, then the loop.
AfterGetAlerts(l) ==
    LET p == prev(env.from, env.to)
        groups == getAlertsByMonitor(l.alerts, p, env.from, env.to)
    IN ReportFrom([l EXCEPT !.alertsByMonitor = groups[1],
                            !.prevAlertsByMonitor = groups[2]],
                  stdout \o << [kind |-> "title", from |-> env.from, to |-> env.to, prev |-> p],
                               [kind |-> "columns"] >>,
                  1)

\* The loop test of getAlerts (line 79).
BoundReached(currentOpenedAt, bound) == currentOpenedAt >= bound

\* A page arrives (line 77 resumes): lines 78-84.
AlertsListOk ==
    /\ script = "stats" /\ pc = "alerts.list"
    /\ UNCHANGED <<script, env, api, clock>>
    /\ answers' = Append(answers, "ok")
    /\ LET res == AlertsList(api.alerts, Last(requests).arg)
           l1 == [loc EXCEPT !.alerts = loc.alerts \o res.alerts,
                             !.responses = Append(loc.responses, res)]
       IN IF BoundReached(loc.currentOpenedAt, prev(env.from, env.to))
            THEN AfterGetAlerts(l1)
          ELSE IF res.alerts = <<>>
            \* res.alerts[-1] is undefined: reading .openedAt throws a TypeError
            THEN /\ loc' = [l1 EXCEPT !.cursor = res.cursor]
                 /\ Uncaught("TypeError: Cannot read properties of undefined")
                 /\ UNCHANGED <<requests, stdout>>
          ELSE /\ loc' = [l1 EXCEPT !.cursor = res.cursor,
                                    !.currentOpenedAt = Last(res.alerts).openedAt]
               /\ pc' = "delay"
               /\ UNCHANGED <<requests, stdout, stderr, exitCode>>

\* The request for a page fails: the client throws, nothing catches it.
AlertsListFail ==
    /\ script = "stats" /\ pc = "alerts.list"
    /\ answers' = Append(answers, "failed")
    /\ Uncaught("alerts.list failed")
    /\ UNCHANGED <<script, env, api, clock, loc, requests, stdout>>

\* The loop without its delay: the next request follows at once.
RequestWithoutDelay ==
    /\ script = "stats" /\ pc = "delay"
    /\ CountRequests("alerts.list") < MaxPageRequests
    /\ requests' = Append(requests, ListRequest(loc.cursor))
    /\ pc' = "alerts.list"
    /\ UNCHANGED <<script, env, api, clock, loc, answers, stdout, stderr, exitCode>>

\* delay(1000) is over (line 84): the loop issues the next request (line 77).
DelayDone ==
    /\ script = "stats" /\ pc = "delay"
    /\ CountRequests("alerts.list") < MaxPageRequests
    /\ clock' = clock + DelayMs
    /\ loc' = [loc EXCEPT !.delays = loc.delays + 1]
    /\ requests' = Append(requests, ListRequest(loc.cursor))
    /\ pc' = "alerts.list"
    /\ UNCHANGED <<script, env, api, answers, stdout, stderr, exitCode>>

\* The monitor's name arrives (line 58 resumes): lines 59-62, then the loop.
MonitorGetOk ==
    /\ script = "stats" /\ pc = "monitors.get"
    /\ UNCHANGED <<script, env, api, clock>>
    /\ answers' = Append(answers, "ok")
    /\ LET e == loc.alertsByMonitor[loc.entry]
           w == windowMin(env.from, env.to)
           cur == getAlertStats(e.alerts, clock)
           prv == getAlertStats(GroupOf(loc.prevAlertsByMonitor, e.key), clock)
           av == availabilityOf(w, cur)
           pav == availabilityOf(w, prv)
           row == [ kind |-> "row", name |-> MonitorName(Last(requests).arg),
                    count |-> getNumberWithDelta(Finite(cur.count, 1), Finite(prv.count, 1), 0),
                    mttr |-> getNumberWithDelta(Finite(cur.mttr, 1), Finite(prv.mttr, 1), 0),
                    availability |-> getNumberWithDelta(av, pav, 2) ]
       IN ReportFrom([loc EXCEPT !.currentStats = cur, !.prevStats = prv,
                                 !.availability = av, !.prevAvailability = pav],
                     Append(stdout, row), loc.entry + 1)

\* The lookup of the monitor fails: the client throws, nothing catches it.
MonitorGetFail ==
    /\ script = "stats" /\ pc = "monitors.get"
    /\ answers' = Append(answers, "failed")
    /\ Uncaught("monitors.get failed")
    /\ UNCHANGED <<script, env, api, clock, loc, requests, stdout>>

NextStats ==
    \/ StatsStart
    \/ AlertsListOk
    \/ AlertsListFail
    \/ DelayDone
    \/ MonitorGetOk
    \/ MonitorGetFail

SpecStats == InitStats /\ [][NextStats]_vars

(***************************************************************************)
(* getAlertStats applied to a list of alerts.                              *)
(***************************************************************************)
\* How long a closed alert stayed open: whole minutes, and 20 seconds.
MttrDurations == {0, MsPerMinute, 2 * MsPerMinute, 20000}

MttrNows == {300000, 400000}

MttrPool ==
    { [monitorId |-> "m1", type |-> "host", openedAt |-> t,
       closedAt |-> IF d = ClosedNull THEN ClosedNull ELSE t + d] :
        t \in OpenedTimes, d \in MttrDurations \cup {ClosedNull} }

InitMTTR ==
    /\ script = "getAlertStats"
    /\ clock \in MttrNows
    /\ env = [apiKey |-> TRUE, from |-> 120000, to |-> 180000]
    /\ api \in { [alerts |-> d] : d \in SeqsUpTo(MttrPool, MaxAlerts) }
    /\ pc = "start"
    /\ loc = StatsLocals
    /\ requests = <<>>
    /\ answers = <<>>
    /\ stdout = <<>>
    /\ stderr = <<>>
    /\ exitCode = -1

\* getAlertStats(alerts) is evaluated (lines 102-109) at time `clock`.
ApplyGetAlertStats ==
    /\ script = "getAlertStats" /\ pc = "start"
    /\ loc' = [loc EXCEPT !.alerts = api.alerts,
                          !.currentStats = getAlertStats(api.alerts, clock)]
    /\ pc' = "exit"
    /\ exitCode' = 0
    /\ UNCHANGED <<script, env, api, clock, requests, answers, stdout, stderr>>

NextMTTR == ApplyGetAlertStats

SpecMTTR == InitMTTR /\ [][NextMTTR]_vars

(***************************************************************************)
(* Strings.  A string is a TLA+ string; the operations that look inside    *)
(* one (split, trim, includes) work on its sequence of characters.         *)
(***************************************************************************)
Chars(str) ==
    CASE str = "svcA" -> <<"s", "v", "c", "A">>
      [] str = "svcB" -> <<"s", "v", "c", "B">>
      [] str = "svcA,svcB" -> <<"s", "v", "c", "A", ",", "s", "v", "c", "B">>
      [] str = "svcA, svcB" -> <<"s", "v", "c", "A", ",", " ", "s", "v", "c", "B">>
      [] str = "svcA:role" -> <<"s", "v", "c", "A", ":", "r", "o", "l", "e">>
      [] str = "svcB:role" -> <<"s", "v", "c", "B", ":", "r", "o", "l", "e">>
      [] str = "svcA:db" -> <<"s", "v", "c", "A", ":", "d", "b">>
      [] str = "svcA cpu" -> <<"s", "v", "c", "A", " ", "c", "p", "u">>
      [] str = "disk" -> <<"d", "i", "s", "k">>
      [] OTHER -> <<>>

\* String.prototype.split(sep) for a one-character separator: the pieces
\* between the separators; a string without separator is one piece.
RECURSIVE Split(_, _)
Split(cs, sep) ==
    IF \A i \in 1..Len(cs) : cs[i] # sep THEN <<cs>>
    ELSE LET k == CHOOSE i \in 1..Len(cs) :
                      cs[i] = sep /\ \A j \in 1..(i - 1) : cs[j] # sep
         IN <<SubSeq(cs, 1, k - 1)>> \o Split(SubSeq(cs, k + 1, Len(cs)), sep)

\* String.prototype.trim(): without the blanks at either end.
RECURSIVE Trim(_)
Trim(cs) ==
    IF cs = <<>> THEN cs
    ELSE IF cs[1] = " " THEN Trim(Tail(cs))
    ELSE IF cs[Len(cs)] = " " THEN Trim(SubSeq(cs, 1, Len(cs) - 1))
    ELSE cs

\* String.prototype.includes(sub): sub occurs in cs as a substring.
Includes(cs, sub) ==
    \E i \in 0..(Len(cs) - Len(sub)) : SubSeq(cs, i + 1, i + Len(sub)) = sub

(***************************************************************************)
(* mackerel/list_monitors.ts and its fetch-based variant (part_000): data  *)
(***************************************************************************)
NoValue == ""           \* null / undefined option value: falsy like ""

AbsentScopes == [kind |-> "absent", include |-> <<>>, exclude |-> <<>>]
ArrayScopes(list) == [kind |-> "array", include |-> list, exclude |-> <<>>]
ObjectScopes(inc, exc) == [kind |-> "object", include |-> inc, exclude |-> exc]

MonitorTypes == {"host", "external"}

MonitorNames == {"svcA cpu", "disk"}

\* Monitor.scopes as the client library delivers it (list_monitors.ts).
ScopeOptions ==
    { AbsentScopes, ArrayScopes(<<>>), ArrayScopes(<<"svcA:role">>),
      ObjectScopes(<<"svcB:role">>, <<>>), ObjectScopes(<<>>, <<"svcA:role">>) }

\* Monitor.scopes / Monitor.excludeScopes of the raw API (part_000).
ScopeOptions0 == { AbsentScopes, ArrayScopes(<<>>), ArrayScopes(<<"svcA:role">>) }

ExcludeOptions0 == { <<>>, <<"svcA:db">> }

MonitorPool(variant) ==
    { [type |-> t, name |-> n, scopes |-> sc, excludeScopes |-> ex] :
        t \in MonitorTypes, n \in MonitorNames,
        sc \in (IF variant = "monitors" THEN ScopeOptions ELSE ScopeOptions0),
        ex \in (IF variant = "monitors" THEN {<<>>} ELSE ExcludeOptions0) }

\* The monitors the service holds: the i-th has id i.
MonitorDbs(variant) ==
    { [i \in 1..Len(ms) |->
         [id |-> i, type |-> ms[i].type, name |-> ms[i].name,
          scopes |-> ms[i].scopes, excludeScopes |-> ms[i].excludeScopes]] :
        ms \in SeqsUpTo(MonitorPool(variant), MaxMonitors) }

MonitorArgs(variant) ==
    { <<>>,
      <<"--service", "svcA">>, <<"--service", "svcB">>,
      <<"--service", "svcA", "--excludeAllServices">>,
      <<"--service", "svcB", "--excludeAllServices", "--format", "json">> }
    \cup (IF variant = "monitors"
            THEN { <<"--service", "svcA, svcB">>,
                   <<"--service", "svcA,svcB", "--excludeAllServices">>,
                   <<"--notificationGroupId", "g1">>,
                   <<"--service", "svcA", "--notificationGroupId", "g1">> }
            ELSE { <<"--service">> })

NotificationGroup1 == [id |-> "g1", monitors |-> {1}, services |-> {"svcB"}]

(***************************************************************************)
(* list_monitors: pure functions                                           *)
(***************************************************************************)
scopesToIncludeArray(scopes) ==
    IF scopes.kind = "array" \/ scopes.kind = "object" THEN scopes.include ELSE <<>>

scopesToExcludeArray(scopes) ==
    IF scopes.kind = "object" THEN scopes.exclude ELSE <<>>

\* The monitor types that are matched by name instead of by scope.
NameMatched(type) ==
    \/ type = "external" \/ type = "expression"
    \/ type = "anomalyDetection" \/ type = "service"

servicePartWhole(scope) == Chars(scope)

\* scope.split(":")[0]
servicePart(scope) == Split(Chars(scope), ":")[1]

\* The service filter taken as one service name, commas and all.
servicesOfWhole(service) == <<Chars(service)>>

\* service.split(",").map(s => s.trim())
servicesOf(service) ==
    [i \in 1..Len(Split(Chars(service), ",")) |-> Trim(Split(Chars(service), ",")[i])]

SeqHas(seq, x) == \E i \in 1..Len(seq) : seq[i] = x

KeepsIgnoringExcludeAll(monitor, service, excludeAllServices) ==
    LET services == servicesOf(service)
        scopesList == scopesToIncludeArray(monitor.scopes)
    IN IF NameMatched(monitor.type)
         THEN \E k \in 1..Len(services) : Includes(Chars(monitor.name), services[k])
       ELSE IF monitor.scopes.kind = "absent" \/ Len(scopesList) = 0 THEN TRUE
       ELSE \E k \in 1..Len(scopesList) : SeqHas(services, servicePart(scopesList[k]))

\* The filter callback of filterByService in list_monitors.ts (lines 58-92).
KeepsByService(monitor, service, excludeAllServices) ==
    LET services == servicesOf(service)
        scopesList == scopesToIncludeArray(monitor.scopes)
    IN IF NameMatched(monitor.type)
         THEN \E k \in 1..Len(services) : Includes(Chars(monitor.name), services[k])
       ELSE IF monitor.scopes.kind = "absent" THEN ~excludeAllServices
       ELSE IF excludeAllServices /\ Len(scopesList) = 0 THEN FALSE
       ELSE IF Len(scopesList) = 0 THEN TRUE
       ELSE \E k \in 1..Len(scopesList) : SeqHas(services, servicePart(scopesList[k]))

filterByService(monitors, service, excludeAllServices) ==
    SelectSeq(monitors, LAMBDA m : KeepsByService(m, service, excludeAllServices))

\* The filter callback of filterByService in part_000 (lines 44-81).
KeepsByService0(monitor, service, excludeAllServices) ==
    LET noScopes == monitor.scopes.kind = "absent" \/ Len(monitor.scopes.include) = 0
    IN IF NameMatched(monitor.type) THEN Includes(Chars(monitor.name), Chars(service))
       ELSE IF \E k \in 1..Len(monitor.excludeScopes) :
                   servicePart(monitor.excludeScopes[k]) = Chars(service)
         THEN FALSE
       ELSE IF excludeAllServices /\ noScopes THEN FALSE
       ELSE IF noScopes THEN TRUE
       ELSE \E k \in 1..Len(monitor.scopes.include) :
                servicePart(monitor.scopes.include[k]) = Chars(service)

filterByService0(monitors, service, excludeAllServices) ==
    SelectSeq(monitors, LAMBDA m : KeepsByService0(m, service, excludeAllServices))

\* notificationGroups.find(ng => ng.id === notificationGroupId)
FindGroup(groups, id) == SelectSeq(groups, LAMBDA g : g.id = id)

\* filterByNotificationGroup (lines 104-140).  The modelled monitors carry no
\* serviceName, so the check of lines 114-118 never allows one.
filterByNotificationGroup(monitors, group) ==
    SelectSeq(monitors,
           LAMBDA m : \/ m.id \in group.monitors
                      \/ /\ m.scopes.kind # "absent"
                         /\ \E k \in 1..Len(m.scopes.include) :
                              \E name \in group.services :
                                  servicePart(m.scopes.include[k]) = Chars(name))

\* What displayMonitors prints of one monitor (the mute mark is not modelled).
Displayed(variant, m) ==
    [ id |-> m.id, name |-> m.name, type |-> m.type,
      scopes |-> IF variant = "monitors" THEN scopesToIncludeArray(m.scopes)
                 ELSE m.scopes.include,
      excludeScopes |-> IF variant = "monitors" THEN scopesToExcludeArray(m.scopes)
                        ELSE m.excludeScopes ]

\* The argument loop of main (list_monitors.ts lines 195-213, part_000 lines
\* 116-130); part_000 knows no --notificationGroupId.
RECURSIVE parseMonitorArgs(_, _, _, _)
parseMonitorArgs(variant, args, i, acc) ==
    IF i > Len(args) THEN acc
    ELSE IF args[i] = "--service" /\ i + 1 <= Len(args)
      THEN parseMonitorArgs(variant, args, i + 2, [acc EXCEPT !.serviceFilter = args[i + 1]])
    ELSE IF variant = "monitors" /\ args[i] = "--notificationGroupId" /\ i + 1 <= Len(args)
      THEN parseMonitorArgs(variant, args, i + 2,
                            [acc EXCEPT !.notificationGroupId = args[i + 1]])
    ELSE IF args[i] = "--format" /\ i + 1 <= Len(args)
      THEN parseMonitorArgs(variant, args, i + 2, [acc EXCEPT !.format = args[i + 1]])
    ELSE IF args[i] = "--excludeAllServices"
      THEN parseMonitorArgs(variant, args, i + 1, [acc EXCEPT !.excludeAllServices = TRUE])
    ELSE parseMonitorArgs(variant, args, i + 1, acc)

MonitorLocals ==
    [ serviceFilter |-> NoValue, notificationGroupId |-> NoValue, format |-> "text",
      excludeAllServices |-> FALSE, monitors |-> <<>> ]

(***************************************************************************)
(* list_monitors: the scripts                                              *)
(***************************************************************************)
IsMonitors == script = "monitors" \/ script = "monitors0"

InitMonitors ==
    /\ script \in {"monitors", "monitors0"}
    /\ clock = 0
    /\ env \in { [apiKey |-> TRUE, args |-> a] : a \in MonitorArgs(script) }
                 \cup { [apiKey |-> FALSE, args |-> <<"--service", "svcA">>] }
    /\ api \in { [monitors |-> ms, notificationGroups |-> gs] :
                   ms \in MonitorDbs(script),
                   gs \in (IF SeqHas(env.args, "--notificationGroupId")
                             THEN {<<>>, <<NotificationGroup1>>}
                             ELSE {<<NotificationGroup1>>}) }
    /\ pc = "start"
    /\ loc = MonitorLocals
    /\ requests = <<>>
    /\ answers = <<>>
    /\ stdout = <<>>
    /\ stderr = <<>>
    /\ exitCode = -1

ErrorExitWithoutCode(lines, code) ==
    /\ stderr' = stderr \o lines
    /\ pc' = "exit"
    /\ exitCode' = 0

\* Deno.exit(code) after the given lines were written with console.error.
ErrorExit(lines, code) ==
    /\ stderr' = stderr \o lines
    /\ pc' = "exit"
    /\ exitCode' = code

ErrorLine(text) == [kind |-> "error", text |-> text]

UsageLine == [kind |-> "usage", text |-> "usage"]

\* main ends: the monitors are printed (JSON or displayMonitors) and the
\* process, with nothing left to run, exits 0.
PrintMonitors(l, out) ==
    /\ loc' = l
    /\ stdout' = Append(out,
                   IF l.format = "json"
                     THEN [kind |-> "json", monitors |-> l.monitors]
                     ELSE [kind |-> "list",
                           monitors |-> [k \in 1..Len(l.monitors) |->
                                           Displayed(script, l.monitors[k])]])
    /\ pc' = "exit"
    /\ exitCode' = 0
    /\ UNCHANGED stderr

Progress(l, text) == IF l.format # "json" THEN <<[kind |-> "progress", text |-> text]>> ELSE <<>>

\* main up to the await of getMonitors (list_monitors.ts lines 177-241,
\* part_000 lines 104-144).
MonitorsStart ==
    /\ IsMonitors /\ pc = "start"
    /\ UNCHANGED <<script, env, api, clock, answers>>
    /\ LET l == parseMonitorArgs(script, env.args, 1, MonitorLocals) IN
       IF ~env.apiKey
         THEN /\ ErrorExit(<<ErrorLine("MACKEREL_APIKEY environment variable is not set"),
                             UsageLine>>, 1)
              /\ UNCHANGED <<loc, requests, stdout>>
       ELSE IF l.serviceFilter = NoValue /\ l.notificationGroupId = NoValue
         THEN /\ ErrorExit(<<ErrorLine("--service is required"), UsageLine>>, 1)
              /\ loc' = l
              /\ UNCHANGED <<requests, stdout>>
       ELSE IF l.serviceFilter # NoValue /\ l.notificationGroupId # NoValue
         THEN /\ ErrorExit(<<ErrorLine("--service and --notificationGroupId exclude each other")>>, 1)
              /\ loc' = l
              /\ UNCHANGED <<requests, stdout>>
       ELSE /\ loc' = l
            /\ stdout' = stdout \o (IF script = "monitors" THEN Progress(l, "fetching")
                                    ELSE <<[kind |-> "progress", text |-> "fetching"]>>)
            /\ requests' = Append(requests, [kind |-> "monitors.list", arg |-> 0])
            /\ pc' = "monitors.list"
            /\ UNCHANGED <<stderr, exitCode>>

\* The monitors arrive: the rest of the try block (list_monitors.ts lines
\* 241-260, part_000 lines 144-154).
MonitorsListOk ==
    /\ IsMonitors /\ pc = "monitors.list"
    /\ UNCHANGED <<script, env, api, clock>>
    /\ answers' = Append(answers, "ok")
    /\ IF script = "monitors0"
         THEN /\ PrintMonitors(
                   [loc EXCEPT !.monitors = filterByService0(api.monitors, loc.serviceFilter,
                                                             loc.excludeAllServices)],
                   Append(stdout, [kind |-> "progress", text |-> "filtering"]))
              /\ UNCHANGED requests
       ELSE IF loc.serviceFilter # NoValue
         THEN /\ PrintMonitors(
                   [loc EXCEPT !.monitors = filterByService(api.monitors, loc.serviceFilter,
                                                            loc.excludeAllServices)],
                   stdout \o Progress(loc, "filtering"))
              /\ UNCHANGED requests
       ELSE /\ loc' = [loc EXCEPT !.monitors = api.monitors]
            /\ stdout' = stdout \o Progress(loc, "filtering")
            /\ requests' = Append(requests, [kind |-> "channels.list", arg |-> 0])
            /\ pc' = "channels.list"
            /\ UNCHANGED <<stderr, exitCode>>

\* getMonitors throws (a failed request, or in part_000 a non-2xx response);
\* the catch of main logs the error and exits 1.
MonitorsListFail ==
    /\ IsMonitors /\ pc = "monitors.list"
    /\ answers' = Append(answers, "failed")
    /\ ErrorExit(<<ErrorLine("failed to fetch monitors")>>, 1)
    /\ UNCHANGED <<script, env, api, clock, loc, requests, stdout>>

\* The notification groups arrive (list_monitors.ts lines 96-101, 253-260).
GroupsListOk ==
    /\ script = "monitors" /\ pc = "channels.list"
    /\ UNCHANGED <<script, env, api, clock, requests>>
    /\ answers' = Append(answers, "ok")
    /\ LET found == FindGroup(api.notificationGroups, loc.notificationGroupId) IN
       IF found = <<>>
         THEN /\ ErrorExit(<<ErrorLine("Notification group not found")>>, 1)
              /\ UNCHANGED <<loc, stdout>>
         ELSE PrintMonitors(
                [loc EXCEPT !.monitors = filterByNotificationGroup(loc.monitors, found[1])],
                stdout)

GroupsListFail ==
    /\ script = "monitors" /\ pc = "channels.list"
    /\ answers' = Append(answers, "failed")
    /\ ErrorExit(<<ErrorLine("failed to list notification groups")>>, 1)
    /\ UNCHANGED <<script, env, api, clock, loc, requests, stdout>>

NextMonitors ==
    \/ MonitorsStart
    \/ MonitorsListOk
    \/ MonitorsListFail
    \/ GroupsListOk
    \/ GroupsListFail

SpecMonitors == InitMonitors /\ [][NextMonitors]_vars

(***************************************************************************)
(* github/make_team_maintainer.ts (REST, script "maintRest") and its       *)
(* GraphQL variant part_001 (script "maintGql"): data                      *)
(***************************************************************************)
TeamName(i) == IF i = 1 THEN "Team One" ELSE IF i = 2 THEN "Team Two"
               ELSE IF i = 3 THEN "Team Three" ELSE "Team Four"

TeamSlug(i) == IF i = 1 THEN "team-one" ELSE IF i = 2 THEN "team-two"
               ELSE IF i = 3 THEN "team-three" ELSE "team-four"

Logins == {"alice", "bob"}

\* The organization's teams with their members (GraphQL), the i-th being
\* team i; the REST team search returns the teams without members.
OrgDbs(variant) ==
    { [i \in 1..Len(ms) |->
         [name |-> TeamName(i), slug |-> TeamSlug(i), id |-> i, members |-> ms[i]]] :
        ms \in SeqsUpTo(IF variant = "maintGql" THEN SeqsUpTo(Logins, MaxMembers) ELSE {<<>>},
                        MaxTeams) }

MaintArgs ==
    { <<>>, <<"acme">>, <<"--dry-run", "acme">>,
      <<"acme", "alice">>, <<"--dry-run", "acme", "alice">> }

\* args[i], undefined (falsy) beyond the end of the arguments
ArgAt(args, i) == IF i <= Len(args) THEN args[i] ELSE NoValue

\* organization.teams(first: TeamsFirst, after: cursor) with, for each team,
\* members(first: MembersFirst); a cursor is the position of the last item.
MembersConnection(members, cursor) ==
    LET hi == Min(cursor + MembersFirst, Len(members)) IN
    [ logins |-> SubSeq(members, cursor + 1, hi),
      hasNextPage |-> hi < Len(members),
      endCursor |-> IF hi > cursor THEN hi ELSE 0 ]

TeamsConnection(org, cursor) ==
    LET hi == Min(cursor + TeamsFirst, Len(org)) IN
    [ edges |-> [k \in 1..(hi - cursor) |->
                   [ name |-> org[cursor + k].name, slug |-> org[cursor + k].slug,
                     id |-> org[cursor + k].id,
                     members |-> MembersConnection(org[cursor + k].members, 0) ]],
      hasNextPage |-> hi < Len(org),
      endCursor |-> IF hi > cursor THEN hi ELSE 0 ]

\* The team of the organization with the given slug (it exists: the model
\* holds the organization fixed during a run).
TeamBySlug(org, slug) == org[CHOOSE i \in 1..Len(org) : org[i].slug = slug]

(***************************************************************************)
(* make_team_maintainer: pure functions                                    *)
(***************************************************************************)
\* The Team that getAllTeamsWithMembers builds of a node (lines 205-212).
TeamOfNode(node) ==
    [name |-> node.name, slug |-> node.slug, id |-> node.id, members |-> node.members.logins]

\* Only the first page of members is ever used.
NeedsMoreMembersNever(node) == FALSE

\* Line 215: the team has further member pages.
NeedsMoreMembers(node) == node.members.hasNextPage /\ node.members.endCursor # 0

\* The for loop over the edges of a teams page from edge e on (lines
\* 203-227): the teams pushed, and the edge at which the loop awaits
\* getAdditionalMembers (beyond the edges when it runs through).
RECURSIVE ScanEdges(_, _, _)
ScanEdges(teams, edges, e) ==
    IF e > Len(edges) \/ NeedsMoreMembers(edges[e]) THEN [teams |-> teams, stop |-> e]
    ELSE ScanEdges(Append(teams, TeamOfNode(edges[e])), edges, e + 1)

filterTeamsByUser(teams, username) ==
    SelectSeq(teams, LAMBDA t : \E k \in 1..Len(t.members) : t.members[k] = username)

\* The team part of the membership URL: team.name in the REST script (line
\* 52), team.slug in the GraphQL script (part_001 line 273).
teamSlugOf(variant, team) == IF variant = "maintRest" THEN team.name ELSE team.slug

\* !token, for token = Deno.env.get("GITHUB_TOKEN")
tokenMissing(e) == ~e.token

MaintLocals ==
    [ dryRun |-> FALSE, org |-> NoValue, username |-> NoValue,
      allTeams |-> <<>>, cursor |-> 0, hasNextPage |-> TRUE,
      teamsData |-> TeamsConnection(<<>>, 0), edge |-> 0,
      team |-> TeamOfNode([name |-> NoValue, slug |-> NoValue, id |-> 0,
                           members |-> MembersConnection(<<>>, 0)]),
      members |-> <<>>, currentCursor |-> 0,
      teams |-> <<>>, k |-> 0 ]

(***************************************************************************)
(* make_team_maintainer: the scripts                                       *)
(***************************************************************************)
IsMaint == script = "maintRest" \/ script = "maintGql"

InitMaint ==
    /\ script \in {"maintRest", "maintGql"}
    /\ clock = 0
    /\ env \in { [token |-> TRUE, args |-> a] : a \in MaintArgs }
                 \cup { [token |-> FALSE, args |-> a] :
                          a \in {<<"acme", "alice">>, <<"acme">>} }
    /\ api \in { [teams |-> org] : org \in OrgDbs(script) }
    /\ pc = "start"
    /\ loc = MaintLocals
    /\ requests = <<>>
    /\ answers = <<>>
    /\ stdout = <<>>
    /\ stderr = <<>>
    /\ exitCode = -1

Log(text) == [kind |-> "log", text |-> text]

TeamsPageRequest(cursor) == [kind |-> "graphql.teams", arg |-> cursor]

MembersPageRequest(slug, cursor) ==
    [kind |-> "graphql.members", arg |-> <<slug, cursor>>]

PutRequest(slug) == [kind |-> "PUT", arg |-> slug]

\* The PUTs of team k and of all later teams are issued at once, none of
\* them awaited before the next.
SetMaintainerAllAtOnce(l, out, k) ==
    /\ loc' = [l EXCEPT !.k = k]
    /\ IF k > Len(l.teams)
         THEN /\ stdout' = Append(out, Log("Done!"))
              /\ pc' = "exit"
              /\ exitCode' = 0
              /\ UNCHANGED requests
         ELSE /\ stdout' = Append(out, Log("Processing team"))
              /\ requests' = requests \o [j \in 1..(Len(l.teams) - k + 1) |->
                                           PutRequest(teamSlugOf(script, l.teams[k + j - 1]))]
              /\ pc' = "PUT"
              /\ UNCHANGED exitCode

\* The for loop of setMaintainer from team k on (REST lines 51-83, GraphQL
\* lines 272-304): it runs to the next PUT, or prints "Done!" and returns to
\* main, which ends: the process exits 0.
SetMaintainerFrom(l, out, k) ==
    /\ loc' = [l EXCEPT !.k = k]
    /\ IF k > Len(l.teams)
         THEN /\ stdout' = Append(out, Log("Done!"))
              /\ pc' = "exit"
              /\ exitCode' = 0
              /\ UNCHANGED requests
         ELSE /\ stdout' = Append(out, Log("Processing team"))
              /\ requests' = Append(requests, PutRequest(teamSlugOf(script, l.teams[k])))
              /\ pc' = "PUT"
              /\ UNCHANGED exitCode

\* main without the dryRun test: setMaintainer always starts.
WithTargetsIgnoringDryRun(l, out) ==
    SetMaintainerFrom(l, Append(out, Log("Setting maintainer")), 1)

\* main once the target teams are known (REST lines 120-133, GraphQL lines
\* 346-358): the dry run prints them and ends, else setMaintainer starts.
WithTargets(l, out) ==
    IF l.dryRun
      THEN /\ loc' = l
           /\ stdout' = out \o <<Log("dry-run mode")>>
                            \o [k \in 1..Len(l.teams) |->
                                  [kind |-> "team", text |-> teamSlugOf(script, l.teams[k])]]
           /\ pc' = "exit"
           /\ exitCode' = 0
           /\ UNCHANGED requests
      ELSE SetMaintainerFrom(l, Append(out, Log("Setting maintainer")), 1)

\* main up to the first await (REST lines 88-119 and 20-23, GraphQL lines
\* 309-340 and 193-199).
MaintStart ==
    /\ IsMaint /\ pc = "start"
    /\ UNCHANGED <<script, env, api, clock, answers>>
    /\ LET dry == ArgAt(env.args, 1) = "--dry-run"
           l == [loc EXCEPT !.dryRun = dry,
                            !.org = ArgAt(env.args, IF dry THEN 2 ELSE 1),
                            !.username = ArgAt(env.args, IF dry THEN 3 ELSE 2)]
       IN /\ loc' = l
          /\ IF l.org = NoValue \/ l.username = NoValue
               THEN /\ ErrorExit(<<ErrorLine("org and username parameters are required"),
                                   UsageLine>>, 1)
                    /\ UNCHANGED <<requests, stdout>>
             ELSE IF tokenMissing(env)
               THEN /\ ErrorExit(<<ErrorLine("GITHUB_TOKEN environment variable is not set")>>, 1)
                    /\ UNCHANGED <<requests, stdout>>
             ELSE /\ stdout' = Append(stdout, Log("Fetching teams"))
                  /\ requests' = Append(requests,
                                   IF script = "maintRest"
                                     THEN [kind |-> "GET teams", arg |-> l.username]
                                     ELSE TeamsPageRequest(0))
                  /\ pc' = IF script = "maintRest" THEN "GET teams" ELSE "graphql.teams"
                  /\ UNCHANGED <<stderr, exitCode>>

\* getTeams gets its 2xx response (REST lines 39-40, 120-133).
GetTeamsOk ==
    /\ script = "maintRest" /\ pc = "GET teams"
    /\ UNCHANGED <<script, env, api, clock, stderr>>
    /\ answers' = Append(answers, "ok")
    /\ WithTargets([loc EXCEPT !.teams = api.teams],
                   stdout \o <<Log("Found teams")>>
                          \o (IF loc.dryRun THEN <<>> ELSE <<[kind |-> "json", teams |-> api.teams]>>))

\* getTeams gets a non-2xx response (REST lines 32-37): Deno.exit(1).
GetTeamsNotOk ==
    /\ script = "maintRest" /\ pc = "GET teams"
    /\ answers' = Append(answers, "failed")
    /\ ErrorExit(<<ErrorLine("GitHub API returned status"), ErrorLine("body")>>, 1)
    /\ UNCHANGED <<script, env, api, clock, loc, requests, stdout>>

\* fetch rejects in getTeams: the catch of main (REST lines 134-137).
GetTeamsThrows ==
    /\ script = "maintRest" /\ pc = "GET teams"
    /\ answers' = Append(answers, "failed")
    /\ ErrorExit(<<ErrorLine("Error:")>>, 1)
    /\ UNCHANGED <<script, env, api, clock, loc, requests, stdout>>

\* getAllTeamsWithMembers with page `page` in hand, the teams l.allTeams
\* collected, at edge e (part_001 lines 203-235): on to the next await, or to
\* the end of the loop and on with main.
ContinueTeams(l, out, page, e) ==
    LET scan == ScanEdges(l.allTeams, page.edges, e)
        l1 == [l EXCEPT !.allTeams = scan.teams, !.teamsData = page, !.edge = scan.stop]
    IN /\ UNCHANGED stderr
       /\ IF scan.stop <= Len(page.edges)
            THEN LET node == page.edges[scan.stop] IN
                 /\ loc' = [l1 EXCEPT !.team = TeamOfNode(node), !.members = <<>>,
                                      !.currentCursor = node.members.endCursor]
                 /\ stdout' = Append(out, Log("fetching additional members"))
                 /\ requests' = Append(requests,
                                  MembersPageRequest(node.slug, node.members.endCursor))
                 /\ pc' = "graphql.members"
                 /\ UNCHANGED exitCode
          ELSE LET l2 == [l1 EXCEPT !.hasNextPage = page.hasNextPage,
                                    !.cursor = page.endCursor]
                   out2 == Append(out, Log("Fetched teams so far"))
               IN IF l2.hasNextPage
                    THEN /\ loc' = l2
                         /\ stdout' = out2
                         /\ requests' = Append(requests, TeamsPageRequest(l2.cursor))
                         /\ pc' = "graphql.teams"
                         /\ UNCHANGED exitCode
                    ELSE WithTargets(
                           [l2 EXCEPT !.teams = filterTeamsByUser(l2.allTeams, l2.username)],
                           out2 \o <<Log("Found teams in total"), Log("Filtering teams"),
                                     Log("Results")>>)

\* A teams page arrives (part_001 lines 199-201).
TeamsPageOk ==
    /\ script = "maintGql" /\ pc = "graphql.teams"
    /\ UNCHANGED <<script, env, api, clock>>
    /\ answers' = Append(answers, "ok")
    /\ ContinueTeams(loc, stdout, TeamsConnection(api.teams, Last(requests).arg), 1)

\* A page of additional members arrives (part_001 lines 134-145, 223-226).
MembersPageOk ==
    /\ script = "maintGql" /\ pc = "graphql.members"
    /\ UNCHANGED <<script, env, api, clock>>
    /\ answers' = Append(answers, "ok")
    /\ LET page == MembersConnection(TeamBySlug(api.teams, loc.team.slug).members,
                                     loc.currentCursor)
           members == loc.members \o page.logins
       IN IF page.hasNextPage
            THEN /\ loc' = [loc EXCEPT !.members = members, !.currentCursor = page.endCursor]
                 /\ requests' = Append(requests,
                                  MembersPageRequest(loc.team.slug, page.endCursor))
                 /\ UNCHANGED <<pc, stdout, stderr, exitCode>>
            ELSE ContinueTeams(
                   [loc EXCEPT !.members = members, !.currentCursor = page.endCursor,
                               !.allTeams = Append(loc.allTeams,
                                   [loc.team EXCEPT !.members = loc.team.members \o members])],
                   stdout, loc.teamsData, loc.edge + 1)

\* executeGraphQL fails (part_001 lines 77-89, 359-362): a non-2xx response
\* or a response with errors ends in Deno.exit(1); a rejected fetch is caught
\* by main, which exits 1 as well.
GraphQLFail ==
    /\ script = "maintGql" /\ pc \in {"graphql.teams", "graphql.members"}
    /\ answers' = Append(answers, "failed")
    /\ \E how \in {"GitHub GraphQL API returned status", "GraphQL Errors:", "Error:"} :
         ErrorExit(<<ErrorLine(how)>>, 1)
    /\ UNCHANGED <<script, env, api, clock, loc, requests, stdout>>

\* The PUT gets its 2xx response (REST lines 76-77, GraphQL lines 297-298).
PutOk ==
    /\ IsMaint /\ pc = "PUT"
    /\ UNCHANGED <<script, env, api, clock, stderr>>
    /\ answers' = Append(answers, "ok")
    /\ SetMaintainerFrom(loc, Append(stdout, Log("Success")), loc.k + 1)

PutFailRetries ==
    /\ IsMaint /\ pc = "PUT"
    /\ UNCHANGED <<script, env, api, clock>>
    /\ answers' = Append(answers, "failed")
    /\ \E how \in {"GitHub API returned status", "Error processing team"} :
         stderr' = stderr \o <<ErrorLine(how)>>
    /\ SetMaintainerFrom(loc, stdout, loc.k)

\* The PUT gets a non-2xx response (REST lines 69-74, GraphQL lines 290-295)
\* or fetch rejects (REST lines 78-80, GraphQL lines 299-301): the error is
\* logged and the loop goes on with the next team.
PutFail ==
    /\ IsMaint /\ pc = "PUT"
    /\ UNCHANGED <<script, env, api, clock>>
    /\ answers' = Append(answers, "failed")
    /\ \E how \in {"GitHub API returned status", "Error processing team"} :
         stderr' = stderr \o <<ErrorLine(how)>>
    /\ SetMaintainerFrom(loc, stdout, loc.k + 1)

NextMaint ==
    \/ MaintStart
    \/ GetTeamsOk
    \/ GetTeamsNotOk
    \/ GetTeamsThrows
    \/ TeamsPageOk
    \/ MembersPageOk
    \/ GraphQLFail
    \/ PutOk
    \/ PutFail

SpecMaint == InitMaint /\ [][NextMaint]_vars

(***************************************************************************)
(* All scripts.                                                            *)
(***************************************************************************)
Init == InitStats \/ InitMonitors \/ InitMaint

Next == NextStats \/ NextMonitors \/ NextMaint

Spec == Init /\ [][Next]_vars

(***************************************************************************)
(* Claims about filterByService (checked under SpecMonitors).              *)
(***************************************************************************)
\* main has filtered by service and printed the result.
FilteredByService ==
    IsMonitors /\ pc = "exit" /\ exitCode = 0 /\ loc.serviceFilter # NoValue

ScopedToSvcA(m) == m.scopes = ArrayScopes(<<"svcA:role">>)

\* C5 as claimed: a monitor scoped ["svcA:role"] is in the result for the
\* filter "svcA" and not in it for "svcB", whatever its type and name.
C5_ScopeFilterAnyType ==
    FilteredByService =>
        \A i \in 1..Len(api.monitors) :
            ScopedToSvcA(api.monitors[i]) =>
                /\ loc.serviceFilter = "svcA" => SeqHas(loc.monitors, api.monitors[i])
                /\ loc.serviceFilter = "svcB" => ~SeqHas(loc.monitors, api.monitors[i])

\* The scopes of the modelled strings that name service svcA.
ScopesOfSvcA == {"svcA:role", "svcA:db"}

\* C5 amended: a monitor scoped ["svcA:role"] whose type is not matched by
\* name (and, in part_000, none of whose excludeScopes names svcA) is in the
\* result for the filter "svcA" and not in it for "svcB", whatever its name.
C5_ScopeFilter ==
    FilteredByService =>
        \A i \in 1..Len(api.monitors) :
            LET m == api.monitors[i] IN
            ( /\ ScopedToSvcA(m)
              /\ m.type \notin {"external", "expression", "anomalyDetection", "service"}
              /\ \A k \in 1..Len(m.excludeScopes) : m.excludeScopes[k] \notin ScopesOfSvcA )
              => /\ loc.serviceFilter = "svcA" => SeqHas(loc.monitors, m)
                 /\ loc.serviceFilter = "svcB" => ~SeqHas(loc.monitors, m)

\* C5 witness: list_monitors.ts filtered by "svcA" and kept a host monitor
\* scoped ["svcA:role"].
C5_Witness ==
    /\ FilteredByService /\ script = "monitors" /\ loc.serviceFilter = "svcA"
    /\ \E i \in 1..Len(api.monitors) :
         /\ ScopedToSvcA(api.monitors[i]) /\ api.monitors[i].type = "host"
         /\ SeqHas(loc.monitors, api.monitors[i])

NoIncludeScopes(m) == m.scopes.kind = "absent" \/ m.scopes.include = <<>>

\* C6 as claimed: with excludeAllServices no monitor of the result has absent
\* scopes or an empty include list, whatever its type.
C6_ExcludeAllAnyType ==
    (FilteredByService /\ loc.excludeAllServices) =>
        \A i \in 1..Len(loc.monitors) : ~NoIncludeScopes(loc.monitors[i])

\* C6 amended: with excludeAllServices no monitor of the result whose type is
\* not matched by name has absent scopes or an empty include list.
C6_ExcludeAll ==
    (FilteredByService /\ loc.excludeAllServices) =>
        \A i \in 1..Len(loc.monitors) :
            loc.monitors[i].type \notin {"external", "expression", "anomalyDetection", "service"}
                => ~NoIncludeScopes(loc.monitors[i])

\* C6 witness: a host monitor without include scopes was dropped by a run
\* with --excludeAllServices.
C6_Witness ==
    /\ FilteredByService /\ loc.excludeAllServices
    /\ \E i \in 1..Len(api.monitors) :
         /\ api.monitors[i].type = "host" /\ NoIncludeScopes(api.monitors[i])
         /\ ~SeqHas(loc.monitors, api.monitors[i])

(***************************************************************************)
(* Claims about mackerel-alert-stats.ts (checked under SpecStats).         *)
(***************************************************************************)
\* getAlerts has returned: the title line is printed right after it.
GetAlertsReturned == script = "stats" /\ Len(stdout) > 0

\* Some page received so far ends with an alert opened at or before the bound.
BoundPageFetched ==
    \E i \in 1..Len(loc.responses) :
        /\ loc.responses[i].alerts # <<>>
        /\ Last(loc.responses[i].alerts).openedAt <= prev(env.from, env.to)

\* The API has nothing older to give: its last response carried no cursor.
NothingLeftToPage == Last(loc.responses).cursor = NoCursor

\* C1: getAlerts does not stop paging early: it returns only after a page
\* whose last (oldest) alert has openedAt <= bound has been fetched.  Read in
\* the claim's favour, it may also return when the API has no further page.
C1_ReturnsOnlyAfterBoundPage ==
    GetAlertsReturned => BoundPageFetched \/ NothingLeftToPage

\* C2: once a page whose oldest alert has openedAt <= bound has been
\* received, no further alert page request is issued.
C2_NoRequestAfterBoundPage ==
    [][(script = "stats" /\ BoundPageFetched)
         => CountRequests("alerts.list")' = CountRequests("alerts.list")]_vars

Occurrences(seq, x) == Cardinality({i \in 1..Len(seq) : seq[i] = x})

GroupOccurrences(groups, x) ==
    SumSeq([i \in 1..Len(groups) |-> Occurrences(groups[i].alerts, x)])

\* C3: the two windows [prev, from) and [from, to) have the same length, every
\* fetched alert opened in [from, to) is in the current groups only, every one
\* opened in [prev, from) is in the previous groups only, each as often as it
\* was fetched, and an alert opened outside [prev, to) is in neither.
C3_WindowPartition ==
    GetAlertsReturned =>
        LET p == prev(env.from, env.to) IN
        /\ env.from - p = env.to - env.from
        /\ \A i \in 1..Len(loc.alerts) :
             LET a == loc.alerts[i]
                 inCur == GroupOccurrences(loc.alertsByMonitor, a)
                 inPrev == GroupOccurrences(loc.prevAlertsByMonitor, a)
             IN /\ (env.from <= a.openedAt /\ a.openedAt < env.to)
                     => inCur = Occurrences(loc.alerts, a) /\ inPrev = 0
                /\ (p <= a.openedAt /\ a.openedAt < env.from)
                     => inPrev = Occurrences(loc.alerts, a) /\ inCur = 0
                /\ (a.openedAt < p \/ a.openedAt >= env.to)
                     => inCur = 0 /\ inPrev = 0

\* C3 witness: getAlerts returned one alert of the current and one of the
\* previous window, both grouped.
C3_Witness ==
    /\ GetAlertsReturned
    /\ Len(loc.alertsByMonitor) > 0
    /\ Len(loc.prevAlertsByMonitor) > 0

\* A report line has been computed: the locals of lines 59-60 are set.
RowComputed == script = "stats" /\ Len(stdout) > 2

\* C4: a window with zero downtime has availability 100, for the current and
\* for the previous window of every accepted time range.
C4_ZeroDowntimeIs100 ==
    RowComputed =>
        /\ loc.currentStats.downTime = 0 => NumIs(loc.availability, 100)
        /\ loc.prevStats.downTime = 0 => NumIs(loc.prevAvailability, 100)

\* The fetched alerts of monitor m that lie in the current window.
CurrentAlertsOf(m) ==
    { i \in 1..Len(loc.alerts) :
        /\ loc.alerts[i].monitorId = m
        /\ env.from <= loc.alerts[i].openedAt /\ loc.alerts[i].openedAt < env.to }

Lookups(m) == Cardinality({i \in 1..Len(requests) : requests[i] = GetRequest(m)})

Rows(m) ==
    Cardinality({i \in 1..Len(stdout) :
                   stdout[i].kind = "row" /\ stdout[i].name = MonitorName(m)})

\* C7: a monitor group of check alerts or without monitor ID gets no name
\* lookup and no report line; every other monitor with an alert in the
\* current window gets at most one of each, one lookup before its line, and
\* exactly one of each once the report has run to its end.
C7_ReportSkipsCheckAndDeleted ==
    script = "stats" =>
        \A m \in AlertMonitors :
            LET mine == CurrentAlertsOf(m) IN
            IF mine = {} \/ m = NullId \/ \A i \in mine : loc.alerts[i].type = "check"
              THEN Lookups(m) = 0 /\ Rows(m) = 0
              ELSE /\ Rows(m) <= Lookups(m) /\ Lookups(m) <= 1
                   /\ (pc = "exit" /\ exitCode = 0) => Rows(m) = 1

\* C7 witness: the report ended with a line for one monitor and with a group
\* of the current window skipped.
C7_Witness ==
    /\ script = "stats" /\ pc = "exit" /\ exitCode = 0
    /\ \E m \in AlertMonitors : Rows(m) = 1
    /\ \E i \in 1..Len(loc.alertsByMonitor) : Skipped(loc.alertsByMonitor[i])

(***************************************************************************)
(* Claims about the maintainer loop (checked under SpecMaint).             *)
(***************************************************************************)
\* The team parts of the PUT requests issued so far, in order.
PutSlugs ==
    LET puts == SelectSeq(requests, LAMBDA r : r.kind = "PUT")
    IN [k \in 1..Len(puts) |-> puts[k].arg]

\* The team parts of the teams handed to setMaintainer, in list order.
TargetSlugs == [k \in 1..Len(loc.teams) |-> teamSlugOf(script, loc.teams[k])]

DonePrinted == \E i \in 1..Len(stdout) : stdout[i] = Log("Done!")

FailedPuts == {i \in 1..Len(answers) : answers[i] = "failed" /\ requests[i].kind = "PUT"}

\* C10: setMaintainer issues one PUT per team in list order, whatever PUTs
\* fail: the PUTs issued are always a prefix of the team list, and a run that
\* is not a dry run ends with one PUT for every team and "Done!" printed last.
C10_OnePutPerTeam ==
    IsMaint =>
        /\ Len(PutSlugs) <= Len(TargetSlugs)
        /\ PutSlugs = SubSeq(TargetSlugs, 1, Len(PutSlugs))
        /\ DonePrinted => PutSlugs = TargetSlugs
        /\ (pc = "exit" /\ (exitCode = 0 \/ PutSlugs # <<>>) /\ ~loc.dryRun)
             => PutSlugs = TargetSlugs /\ Last(stdout) = Log("Done!")

\* C10 witness: "Done!" was printed after two PUTs of which the first failed.
C10_Witness ==
    /\ IsMaint /\ DonePrinted
    /\ Len(PutSlugs) >= 2
    /\ \E i \in FailedPuts : i < Len(requests)

(***************************************************************************)
(* Claims about every script (checked under Spec).                         *)
(***************************************************************************)
\* The option `flag` is given with a value.
HasOption(args, flag) ==
    \E i \in 1..(Len(args) - 1) : args[i] = flag /\ args[i + 1] # NoValue

\* org or username is not given.
PositionalMissing ==
    IF env.args # <<>> /\ env.args[1] = "--dry-run" THEN Len(env.args) < 3
    ELSE Len(env.args) < 2

\* Required configuration is missing: the credential of the script, or a
\* required flag or positional argument.
MissingConfig ==
    IF script = "stats"
      THEN ~env.apiKey \/ env.from = InvalidDate \/ env.to = InvalidDate
    ELSE IF IsMonitors
      THEN \/ ~env.apiKey
           \/ ~HasOption(env.args, "--service") /\ ~HasOption(env.args, "--notificationGroupId")
    ELSE ~env.token \/ PositionalMissing

UsagePrinted == \E i \in 1..Len(stderr) : stderr[i].kind = "usage"

\* C8 as claimed: missing configuration is an immediate exit 1 with the usage
\* text printed and without any HTTP request.
C8_MissingConfigUsage ==
    MissingConfig =>
        /\ requests = <<>>
        /\ pc \in {"start", "exit"}
        /\ pc = "exit" => exitCode = 1 /\ UsagePrinted

FailedRequests == {i \in 1..Len(answers) : answers[i] = "failed"}

\* C9 as claimed: exit code 0 only if every request succeeded, 1 whenever a
\* request failed, PUTs included.
C9_ExitCodeAnyFailure ==
    pc = "exit" => (FailedRequests # {} => exitCode = 1)

\* C9 amended: exit code 0 only if every request other than the PUTs of the
\* maintainer loop succeeded, 1 whenever such a request failed; a failed PUT
\* is logged only, and the run ends with exit code 0.
C9_ExitCode ==
    pc = "exit" =>
        /\ FailedRequests \ FailedPuts # {} => exitCode = 1
        /\ FailedPuts # {} => exitCode = 0

\* C9 witness: a maintainer run with a failed PUT has exited with 0.
C9_Witness == pc = "exit" /\ exitCode = 0 /\ FailedPuts # {}

(***************************************************************************)
(* Claims about the dry run (checked under SpecMaint).                     *)
(***************************************************************************)
DryRunGiven == IsMaint /\ ArgAt(env.args, 1) = "--dry-run"

\* The team lines printed by the dry run, in order.
TeamLines ==
    LET lines == SelectSeq(stdout, LAMBDA o : o.kind = "team")
    IN [k \in 1..Len(lines) |-> lines[k].text]

\* C11: with --dry-run as the first argument no PUT request is ever issued,
\* and a run that ends successfully has printed the target teams, one line
\* per team in list order, and never "Done!".
C11_DryRunNoPut ==
    DryRunGiven =>
        /\ \A i \in 1..Len(requests) : requests[i].kind # "PUT"
        /\ ~DonePrinted
        /\ (pc = "exit" /\ exitCode = 0) => TeamLines = TargetSlugs

\* C11 witness: a dry run has ended successfully, after a read request, with
\* at least one target team printed.
C11_Witness ==
    /\ DryRunGiven /\ pc = "exit" /\ exitCode = 0
    /\ requests # <<>>
    /\ TeamLines # <<>>

(***************************************************************************)
(* Claims about the GraphQL maintainer script (checked under SpecMaint).   *)
(***************************************************************************)
\* The organization's teams as Team values: name, slug, id and all members.
OrgTeams ==
    [i \in 1..Len(api.teams) |->
       [name |-> api.teams[i].name, slug |-> api.teams[i].slug,
        id |-> api.teams[i].id, members |-> api.teams[i].members]]

\* The slugs of the organization's teams that have the given username among
\* their members, in the organization's order.
MemberTeamSlugs ==
    LET mine == SelectSeq(api.teams,
                  LAMBDA t : \E k \in 1..Len(t.members) : t.members[k] = ArgAt(env.args, 2))
    IN [k \in 1..Len(mine) |-> mine[k].slug]

\* getAllTeamsWithMembers has returned.
AllTeamsFetched == script = "maintGql" /\ (pc = "PUT" \/ (pc = "exit" /\ exitCode = 0))

\* C12: in a run of the GraphQL script that is not a dry run, once
\* getAllTeamsWithMembers has returned it has collected every team of the
\* organization with all its members; the PUT requests issued are always a
\* prefix of the teams the username is a member of, in order, and a run that
\* ends successfully has issued exactly one PUT for each of them.
C12_PutsAreMemberTeams ==
    (script = "maintGql" /\ ~DryRunGiven) =>
        /\ PutSlugs = SubSeq(MemberTeamSlugs, 1, Len(PutSlugs))
        /\ Len(PutSlugs) <= Len(MemberTeamSlugs)
        /\ AllTeamsFetched => loc.allTeams = OrgTeams
        /\ (pc = "exit" /\ exitCode = 0) => PutSlugs = MemberTeamSlugs

\* C12 witness: a run has ended successfully with a PUT for a team whose
\* membership of the user was found on an additional member page, having read
\* more than one team page and left out a team the user is not a member of.
C12_Witness ==
    /\ script = "maintGql" /\ ~DryRunGiven /\ pc = "exit" /\ exitCode = 0
    /\ PutSlugs # <<>>
    /\ Len(MemberTeamSlugs) < Len(api.teams)
    /\ Cardinality({i \in 1..Len(requests) : requests[i].kind = "graphql.teams"}) > 1
    /\ \E i \in 1..Len(requests) :
         /\ requests[i].kind = "graphql.members"
         /\ \E k \in 1..Len(PutSlugs) : PutSlugs[k] = requests[i].arg[1]

(***************************************************************************)
(* Claims about getMTTR and getAlertStats (checked under SpecMTTR).        *)
(***************************************************************************)
\* Every alert of the list was closed k whole minutes after it was opened.
AllClosedAfter(alerts, k) ==
    \A i \in 1..Len(alerts) : alerts[i].closedAt = alerts[i].openedAt + k * MsPerMinute

StatsApplied == script = "getAlertStats" /\ pc = "exit"

\* C13: for a non-empty list of alerts all closed at openedAt + k minutes
\* getMTTR is k (and getAlertStats gives the count and count * k); for the
\* empty list getAlertStats gives count 0, mttr 0 and downTime 0.
C13_MttrOfUniformAlerts ==
    StatsApplied =>
        /\ \A k \in 0..2 :
             (loc.alerts # <<>> /\ AllClosedAfter(loc.alerts, k)) =>
                 loc.currentStats = [count |-> Len(loc.alerts), mttr |-> k,
                                     downTime |-> Len(loc.alerts) * k]
        /\ loc.alerts = <<>> =>
             loc.currentStats = [count |-> 0, mttr |-> 0, downTime |-> 0]

\* C13 witness: getAlertStats was applied to two or more alerts, opened at
\* different times and all closed 2 minutes after they were opened.
C13_Witness ==
    /\ StatsApplied
    /\ Len(loc.alerts) >= 2
    /\ loc.alerts[1].openedAt # loc.alerts[2].openedAt
    /\ AllClosedAfter(loc.alerts, 2)
    /\ loc.currentStats.mttr = 2

(***************************************************************************)
(* Claims about comma-separated service filters (checked under             *)
(* SpecMonitors).                                                          *)
(***************************************************************************)
\* main of list_monitors.ts has filtered by a list of two services.
FilteredByTwoServices ==
    /\ script = "monitors" /\ FilteredByService
    /\ loc.serviceFilter \in {"svcA,svcB", "svcA, svcB"}

\* The monitors that filterByService keeps for the single service.
KeptFor(service) == filterByService(api.monitors, service, loc.excludeAllServices)

\* C14: the result of filtering by "svcA,svcB" (or "svcA, svcB") holds a
\* monitor exactly when the result for "svcA" or the result for "svcB" holds
\* it, and the monitors are in their input order.
C14_CommaIsUnion ==
    FilteredByTwoServices =>
        loc.monitors = SelectSeq(api.monitors,
                         LAMBDA m : SeqHas(KeptFor("svcA"), m) \/ SeqHas(KeptFor("svcB"), m))

\* C14 witness: the result for the two services holds a monitor that only
\* "svcA" selects followed by one that only "svcB" selects.
C14_Witness ==
    /\ FilteredByTwoServices
    /\ Len(loc.monitors) = 2
    /\ SeqHas(KeptFor("svcA"), loc.monitors[1]) /\ ~SeqHas(KeptFor("svcB"), loc.monitors[1])
    /\ SeqHas(KeptFor("svcB"), loc.monitors[2]) /\ ~SeqHas(KeptFor("svcA"), loc.monitors[2])

(***************************************************************************)
(* Claims about the pacing of getAlerts (checked under SpecStats).         *)
(***************************************************************************)
PageRequests == CountRequests("alerts.list")

\* C15: every alert page request but the first is issued at the end of one
\* delay of DelayMs, which started when a page arrived that did not end the
\* loop; time passes in such a delay only, so none follows the page that ends
\* the loop; the delays completed are always one fewer than the page requests.
C15_OneDelayBetweenPages ==
    [][script = "stats" =>
         /\ (PageRequests' # PageRequests /\ PageRequests > 0)
              => pc = "delay" /\ clock' = clock + DelayMs
         /\ clock' # clock
              => pc = "delay" /\ clock' = clock + DelayMs /\ PageRequests' = PageRequests + 1
         /\ (pc' = "delay" /\ pc # "delay")
              => pc = "alerts.list" /\ Last(answers') = "ok" /\ PageRequests' = PageRequests
         /\ PageRequests' > 0 => loc.delays' = PageRequests' - 1]_vars

\* C15 witness: a run with three page requests, two delays between them and
\* two seconds passed has ended.
C15_Witness ==
    /\ script = "stats" /\ pc = "exit"
    /\ PageRequests = 3
    /\ loc.delays = 2
    /\ clock \in {n + 2 * DelayMs : n \in Nows}

(***************************************************************************)
(* Claims about the order of requests (checked under Spec).                *)
(***************************************************************************)
\* C16: in every script and every reachable state at most one request is
\* outstanding, and none is while the script starts, sleeps in its delay or
\* has exited: a request is issued only when every earlier one was answered.
C16_OneRequestAtATime ==
    /\ Inflight \in {0, 1}
    /\ pc \in {"start", "delay", "exit"} => Inflight = 0

\* C16 witness: the GraphQL maintainer script awaits a PUT after a team page
\* and a member page were requested and answered.
C16_Witness ==
    /\ script = "maintGql" /\ pc = "PUT" /\ Inflight = 1
    /\ \E i \in 1..Len(answers) : requests[i].kind = "graphql.teams"
    /\ \E i \in 1..Len(answers) : requests[i].kind = "graphql.members"

====
